---- MODULE Spec2Model ----
(***************************************************************************)
(* Model of UserDataSyncWorkbenchService and UserDataSyncPreview           *)
(* (src/vs/workbench/services/userDataSync/browser/                        *)
(*  userDataSyncWorkbenchService.ts).                                      *)
(*                                                                         *)
(* Every `await` of the source is a point where other handlers may run:    *)
(* an async method is a process whose position is kept in the state, and   *)
(* one action runs the code between two awaits.                            *)
(***************************************************************************)
EXTENDS Integers, Sequences, FiniteSets, Bags, TLC

\* ---------------------------------------------------------------- bounds
NumSessions == 3      \* sessions the authentication providers can issue
MaxRefresh == 2       \* update() calls in flight at the same time
MaxEnv == 3           \* events the environment raises in one behaviour
MaxTurnOn == 1        \* enablement sequences (turnOn) in one behaviour
MaxStarts == 3        \* starts of the service on one key-value store
MaxUser == 2          \* preview operations and conflict feeds in one behaviour

\* ------------------------------------------------------------- encodings
None == 0             \* undefined
Null == -1            \* null (the empty session-id cache)

SessionIds == 1..NumSessions
Providers == {"p1", "p2"}
\* the provider and the account label of a session
ProviderOf(s) == IF s <= 2 THEN "p1" ELSE "p2"
NameOf(s) == IF s <= 2 THEN "a" ELSE "b"
\* product configurations: the configured authentication providers
ProviderConfigs == {<<>>, <<"p1">>, <<"p1", "p2">>}
SupportsMultipleAccounts == {"p1"}

Range(q) == {q[i] : i \in DOMAIN q}
SeqsOf(S) == {q \in [1..Cardinality(S) -> S] : \A i, j \in DOMAIN q : q[i] = q[j] => i = j}

\* ------------------------------------------------- sync resources (inputs)
\* the states a resource preview can be in: unchanged, changed locally,
\* added remotely, changed and already merged
ResourceStates ==
    {[localChange |-> "None", remoteChange |-> "None", merged |-> FALSE],
     [localChange |-> "Modified", remoteChange |-> "None", merged |-> FALSE],
     [localChange |-> "None", remoteChange |-> "Added", merged |-> FALSE],
     [localChange |-> "Modified", remoteChange |-> "None", merged |-> TRUE],
     [localChange |-> "Deleted", remoteChange |-> "None", merged |-> FALSE]}

\* the remote URI of the resource with local URI u
Remote(u) == CASE u = "u1" -> "r1" [] u = "u2" -> "r2" [] OTHER -> "r3"

\* IResourcePreview
RP(u, st) == [localResource |-> u, remoteResource |-> Remote(u), localChange |-> st.localChange,
              remoteChange |-> st.remoteChange, merged |-> st.merged]

\* the resource previews a sync resource can report: none or one
ResourcesOf(uris) == {<<>>} \cup {<<RP(u, st)>> : u \in uris, st \in ResourceStates}

\* [SyncResource, ISyncResourcePreview][]: the kinds that report a resource
MkPreview(il, s, k, g) ==
    LET E(kind, rs) == IF rs = <<>> THEN <<>>
                       ELSE << <<kind, [isLastSyncFromCurrentMachine |-> il,
                                        resourcePreviews |-> rs]>> >>
    IN E("Settings", s) \o E("Keybindings", k) \o E("GlobalState", g)

\* what IManualSyncTask.preview/accept/merge can return; the preview object
\* reads isLastSyncFromCurrentMachine nowhere, one value of it is enough
TaskPreviews ==
    {MkPreview(il, s, k, g) : il \in {FALSE}, s \in ResourcesOf({"u1"}),
                              k \in ResourcesOf({"u1", "u2"}),
                              g \in {<<>>, <<RP("u3", [localChange |-> "Modified",
                                                       remoteChange |-> "None",
                                                       merged |-> FALSE])>>}}

\* the previews the enablement sequence is run with: nothing to sync, an
\* unchanged resource, a changed one (last synced from this machine or not),
\* only global state changed, a merged resource, two changed resources
Changed == [localChange |-> "Modified", remoteChange |-> "None", merged |-> FALSE]
SequencePreviews ==
    {MkPreview(TRUE, <<>>, <<>>, <<>>),
     MkPreview(FALSE, <<RP("u1", [Changed EXCEPT !.localChange = "None"])>>, <<>>, <<>>),
     MkPreview(FALSE, <<RP("u1", Changed)>>, <<>>, <<>>),
     MkPreview(TRUE, <<RP("u1", Changed)>>, <<>>, <<>>),
     MkPreview(FALSE, <<>>, <<>>, <<RP("u3", Changed)>>),
     MkPreview(FALSE, <<RP("u1", [Changed EXCEPT !.merged = TRUE])>>, <<>>, <<>>),
     MkPreview(FALSE, <<RP("u1", Changed)>>, <<RP("u2", Changed)>>, <<>>)}

ConflictState == [localChange |-> "Modified", remoteChange |-> "Modified", merged |-> FALSE]

\* [SyncResource, IResourcePreview[]][]: what the conflict feed can deliver
ConflictFeeds ==
    {(IF s = <<>> THEN <<>> ELSE << <<"Settings", s>> >>) \o
     (IF k = <<>> THEN <<>> ELSE << <<"Keybindings", k>> >>) :
        s \in {<<>>, <<RP("u1", ConflictState)>>},
        k \in {<<>>, <<RP("u1", ConflictState)>>, <<RP("u2", ConflictState)>>}}

\* the feeds the enablement sequence is run with: no conflict, one conflict
SequenceFeeds == {<<>>, << <<"Settings", <<RP("u1", ConflictState)>> >> >>}

VARIABLES
    authenticationProviders, \* configured providers, in order
    live,                    \* sessions the providers currently hold
    stored,                  \* storage value of CACHED_SESSION_STORAGE_KEY
    cached,                  \* _cachedCurrentSessionId
    all,                     \* _all: provider -> accounts (session ids)
    accountStatus,           \* _accountStatus
    phase,                   \* "constructed", "initializing", "listening"
    refreshes,               \* the update() calls in flight
    sessionEvents,           \* onDidChangeSessions events not yet delivered
    storageEvents,           \* onDidChangeStorage events not yet delivered
    pickSt,                  \* the pick() call in flight
    envBudget,               \* environment events still allowed
    useWorkbenchSessionId,   \* not DONOT_USE_WORKBENCH_SESSION_STORAGE_KEY in the store
    hostSessionId,           \* environmentService.options.authenticationSessionId
    starts,                  \* starts of the service so far
    adopted,                 \* times the host session id was adopted
    manualSync,              \* UserDataSyncPreview.manualSync
    changes,                 \* UserDataSyncPreview._changes
    conflicts,               \* UserDataSyncPreview._conflicts
    tasks,                   \* the manual sync tasks created: state and calls
    showManualSyncViewContext,
    pendingOp,               \* the preview operation awaiting its task
    userBudget,              \* preview operations and feeds still allowed
    turnOnCount,             \* turnOn() calls so far
    turnOnSt,                \* the turnOn() call in flight (or the last one)
    log,                     \* the calls that turnOn() call has made, in order
    last                     \* the step taken last

bootVars == <<useWorkbenchSessionId, hostSessionId, starts, adopted>>
acctVars == <<authenticationProviders, live, stored, cached, all, accountStatus, phase,
              refreshes, sessionEvents, storageEvents, pickSt, envBudget, bootVars>>
previewVars == <<manualSync, changes, conflicts, showManualSyncViewContext, pendingOp,
                 userBudget, turnOnCount>>
syncVars == <<previewVars, tasks, turnOnSt, log>>
vars == <<acctVars, syncVars, last>>

\* ------------------------------------------------------------ last step
L(op) == [op |-> op, cont |-> "none", cur |-> None, target |-> None, saw |-> FALSE,
          prev |-> "Uninitialized", res |-> "none", fired |-> {}, task |-> 0,
          taskState |-> "none", had |-> FALSE, preview |-> <<>>, value |-> <<>>]

\* ---------------------------------------------------- session id access
getStoredCachedSessionId == stored

\* get currentSessionId: fills the cache from storage when it is null
currentSessionId == IF cached = Null THEN getStoredCachedSessionId ELSE cached

\* set currentSessionId: <<new cache, new stored value>>
SetCurrentSessionId(v) == IF cached # v THEN <<v, v>> ELSE <<cached, stored>>

isCurrentAccount(account, id) == account = id

EmptyAll == [p \in Providers |-> <<>>]
FlattenAll(a) == a["p1"] \o a["p2"]

\* get current, for the account set a and the session id id
CurrentOf(a, id) ==
    LET f == SelectSeq(FlattenAll(a), LAMBDA x : isCurrentAccount(x, id))
    IN IF f = <<>> THEN None ELSE f[1]

current == CurrentOf(all, currentSessionId)

\* session id cache after `this.current` was evaluated on account set a
CacheAfterCurrent(a) == IF FlattenAll(a) = <<>> THEN cached ELSE currentSessionId

\* ---------------------------------------------------------- getAccounts
\* Map.set(account.accountName, account) on an insertion-ordered map
MapSet(m, s) ==
    IF \E i \in DOMAIN m : NameOf(m[i]) = NameOf(s)
    THEN [i \in DOMAIN m |-> IF NameOf(m[i]) = NameOf(s) THEN s ELSE m[i]]
    ELSE Append(m, s)

RECURSIVE AccountsLoop(_, _)
AccountsLoop(sessions, m) ==
    IF sessions = <<>> THEN m
    ELSE AccountsLoop(Tail(sessions), MapSet(m, Head(sessions)))

getAccounts(sessions, id) ==
    LET accounts == AccountsLoop(sessions, <<>>)
        cur == SelectSeq(sessions, LAMBDA x : isCurrentAccount(x, id))
    IN IF cur # <<>> THEN MapSet(accounts, cur[Len(cur)]) ELSE accounts

\* ------------------------------------------------------ update (refresh)
\* refreshes is the bag of update() calls in flight
InFlight == BagToSet(refreshes)
CanStart == BagCardinality(refreshes) < MaxRefresh
Put(rec) == SetToBag({rec})

\* update(): the code up to the first await (getSessions of the first provider)
update(cont, target) ==
    refreshes (+) Put([pc |-> "fetch", idx |-> 1, acc |-> EmptyAll, cur |-> None,
                       cont |-> cont, target |-> target, saw |-> FALSE])

\* session.accessToken of session s
TokenOf(s) == <<"accessToken", s>>

\* updateToken(current), up to `await updateAccount(value)`: the value passed
\* (<<>> for undefined, else <<token, authenticationProviderId>>) and whether
\* logService.error was called; tokenOk: reading current.token did not throw
updateTokenMut(cur, tokenOk) ==
    [value |-> IF cur # None THEN <<TokenOf(cur), ProviderOf(cur)>> ELSE <<>>,
     logged |-> cur # None /\ ~tokenOk]
updateToken(cur, tokenOk) ==
    [value |-> IF cur # None /\ tokenOk THEN <<TokenOf(cur), ProviderOf(cur)>> ELSE <<>>,
     logged |-> cur # None /\ ~tokenOk]

\* updateAccountStatus, line 217: whether onDidChangeAccountStatus fires
StatusFiresMut(previous, accountStatus_) == TRUE
StatusFires(previous, accountStatus_) == previous # accountStatus_

updateAccountStatusMut(cur) == IF cur # None THEN "Unavailable" ELSE "Available"
updateAccountStatus(cur) == IF cur # None THEN "Available" ELSE "Unavailable"

IdlePick == [pc |-> "idle", owner |-> "none", prov |-> "none", items |-> {}, offered |-> {}]

\* createQuickpickItems: the accounts and the sign-in entries on offer
createQuickpickItems ==
    [items |-> Range(FlattenAll(all)),
     offered |-> {p \in Range(authenticationProviders) :
                    \/ ~\E s \in Range(FlattenAll(all)) : ProviderOf(s) = p
                    \/ p \in SupportsMultipleAccounts}]

\* ------------------------------------------------- UserDataSyncPreview
NoSync == [task |-> 0, preview |-> <<>>]

RECURSIVE Flatten(_)
Flatten(ss) == IF ss = <<>> THEN <<>> ELSE Head(ss) \o Flatten(Tail(ss))

MapSeq(q, F(_)) == [i \in DOMAIN q |-> F(q[i])]

\* toUserDataSyncResourceGroups, on [SyncResource, IResourcePreview[]][]
toUserDataSyncResourceGroups(syncResourcePreviews) ==
    Flatten(MapSeq(syncResourcePreviews, LAMBDA e :
        MapSeq(e[2], LAMBDA r :
            [syncResource |-> e[1], local |-> r.localResource, remote |-> r.remoteResource,
             localChange |-> r.localChange, remoteChange |-> r.remoteChange])))

\* equals(a, b, (x, y) => isEqual(x.local, y.local))
equals(a, b) == Len(a) = Len(b) /\ \A i \in DOMAIN a : a[i].local = b[i].local

\* the conflict test of updateChanges (line 648)
InConflicts(confl, syncResource, r) ==
    \E i \in DOMAIN confl :
        confl[i].syncResource = syncResource /\ confl[i].local = r.localResource

\* the list updateChanges derives from the preview and the conflicts
NewChanges(ms, confl) ==
    toUserDataSyncResourceGroups(
        MapSeq(SelectSeq(ms.preview, LAMBDA e : e[1] # "GlobalState"), LAMBDA e :
            <<e[1], SelectSeq(e[2].resourcePreviews, LAMBDA r :
                        /\ ~r.merged
                        /\ (r.localChange # "None" \/ r.remoteChange # "None")
                        /\ ~InConflicts(confl, e[1], r))>>))

\* q.find(c => isEqual(c.remote, resource)): <<the first match>> or <<>>
RECURSIVE find(_, _)
find(q, resource) ==
    IF q = <<>> THEN <<>>
    ELSE IF Head(q).remote = resource THEN <<Head(q)>>
    ELSE find(Tail(q), resource)

\* provideDecorations(resource): the letter of the decoration, or "none"
provideDecorationsMut(chs, confl, resource) ==
    LET changeResource == IF find(confl, resource) # <<>> THEN find(confl, resource)
                          ELSE find(chs, resource)
    IN IF changeResource = <<>> THEN "none"
       ELSE IF \/ changeResource[1].localChange = "Modified"
               \/ changeResource[1].remoteChange = "Modified" THEN "M"
       ELSE IF \/ changeResource[1].localChange \in {"Added", "Deleted"}
               \/ changeResource[1].remoteChange \in {"Added", "Deleted"} THEN "A"
       ELSE "none"
provideDecorations(chs, confl, resource) ==
    LET changeResource == IF find(chs, resource) # <<>> THEN find(chs, resource)
                          ELSE find(confl, resource)
    IN IF changeResource = <<>> THEN "none"
       ELSE IF \/ changeResource[1].localChange = "Modified"
               \/ changeResource[1].remoteChange = "Modified" THEN "M"
       ELSE IF \/ changeResource[1].localChange \in {"Added", "Deleted"}
               \/ changeResource[1].remoteChange \in {"Added", "Deleted"} THEN "A"
       ELSE "none"

\* updateChanges: the new _changes and whether onDidChangeChanges fired
updateChangesMut(ms, confl, old) ==
    [changes |-> NewChanges(ms, confl), fired |-> TRUE]
updateChanges(ms, confl, old) ==
    LET newChanges == NewChanges(ms, confl)
    IN IF ~equals(newChanges, old)
       THEN [changes |-> newChanges, fired |-> TRUE]
       ELSE [changes |-> old, fired |-> FALSE]

\* updateConflicts: the new _conflicts, _changes and the events fired
updateConflicts(feed, ms, oldConflicts, oldChanges) ==
    LET newConflicts == toUserDataSyncResourceGroups(feed)
        firedC == ~equals(newConflicts, oldConflicts)
        confl == IF firedC THEN newConflicts ELSE oldConflicts
        ch == updateChanges(ms, confl, oldChanges)
    IN [conflicts |-> confl, changes |-> ch.changes,
        firedConflicts |-> firedC, firedChanges |-> ch.fired]

Fired(fc, fk) == (IF fc THEN {"onDidChangeChanges"} ELSE {}) \cup
                 (IF fk THEN {"onDidChangeConflicts"} ELSE {})

\* merge/pull/push: the test of this.manualSync that opens each of them; the
\* Error it throws ('Can merge only while syncing manually') is InvalidState
RequireManualSyncMut(ms) == IF ms = NoSync THEN "ok" ELSE "called"
RequireManualSync(ms) == IF ms = NoSync THEN "InvalidState" ELSE "called"

\* ------------------------------------------------- manual sync tasks
NoTask == [st |-> "none", merge |-> 0, pull |-> 0, push |-> 0, accept |-> 0]
TaskIds == 1..MaxTurnOn

\* tasks after operation op was invoked on task t
Invoke(ts, t, op) ==
    [ts EXCEPT ![t] = CASE op = "merge" -> [@ EXCEPT !.merge = @ + 1]
                        [] op = "pull" -> [@ EXCEPT !.pull = @ + 1]
                        [] op = "push" -> [@ EXCEPT !.push = @ + 1]
                        [] OTHER -> [@ EXCEPT !.accept = @ + 1]]

\* ------------------------------------------------------------- turnOn
IdleTurnOn == [pc |-> "idle", task |-> 0, action |-> "none", preview |-> <<>>,
               err |-> "none", hasRemoteData |-> FALSE, hasLocalData |-> FALSE,
               prompted |-> FALSE, choice |-> -1, result |-> "none"]

\* syncBeforeTurningOn line 269
hasChangesOf(preview) ==
    \E i \in DOMAIN preview : \E j \in DOMAIN preview[i][2].resourcePreviews :
        LET r == preview[i][2].resourcePreviews[j]
        IN r.localChange # "None" \/ r.remoteChange # "None"

\* syncBeforeTurningOn line 270
isLastSyncFromCurrentMachineOf(preview) ==
    \A i \in DOMAIN preview : preview[i][2].isLastSyncFromCurrentMachine

\* getFirstTimeSyncAction up to the dialog: "merge", or "prompt" to show it
getFirstTimeSyncActionMut(hasRemoteData, hasLocalData, hasChanges, isLastSyncFromCurrentMachine) ==
    IF ~hasLocalData \/ ~hasRemoteData \/ ~hasChanges
    THEN "merge" ELSE "prompt"
getFirstTimeSyncAction(hasRemoteData, hasLocalData, hasChanges, isLastSyncFromCurrentMachine) ==
    IF ~hasLocalData \/ ~hasRemoteData \/ ~hasChanges \/ isLastSyncFromCurrentMachine
    THEN "merge" ELSE "prompt"

\* getFirstTimeSyncAction after the dialog: switch (result.choice)
ChoiceActionMut(choice) ==
    CASE choice = 0 -> "manual"
      [] choice = 1 -> "merge"
      [] choice = 2 -> "push"
      [] OTHER -> "Cancelled"
ChoiceAction(choice) ==
    CASE choice = 0 -> "manual"
      [] choice = 1 -> "merge"
      [] choice = 2 -> "pull"
      [] OTHER -> "Cancelled"

\* turnOn() ends: it returns ("ok") or throws ("Cancelled", "Error")
TurnOnEnds(res) == turnOnSt' = [turnOnSt EXCEPT !.pc = "idle", !.result = res]

\* turnOn() after `await this.pick()` returned picked
TurnOnAfterPickMut(picked, status) ==
    /\ IF ~picked
       THEN /\ TurnOnEnds("Cancelled")
            /\ UNCHANGED log
       ELSE /\ turnOnSt' = [turnOnSt EXCEPT !.pc = "resetLocal"]
            /\ log' = Append(log, "resetLocal")
    /\ UNCHANGED <<previewVars, tasks>>
TurnOnAfterPick(picked, status) ==
    /\ IF ~picked
       THEN /\ TurnOnEnds("Cancelled")
            /\ UNCHANGED log
       ELSE IF status # "Available"
       THEN /\ TurnOnEnds("Error")
            /\ log' = Append(log, "statusCheck")
       ELSE /\ turnOnSt' = [turnOnSt EXCEPT !.pc = "resetLocal"]
            /\ log' = log \o <<"statusCheck", "resetLocal">>
    /\ UNCHANGED <<previewVars, tasks>>

\* pick() returned or threw: its caller continues
PickReturns(picked, status) ==
    IF pickSt.owner = "turnOn"
    THEN TurnOnAfterPick(picked, status)
    ELSE UNCHANGED syncVars

PickThrows ==
    IF pickSt.owner = "turnOn"
    THEN /\ TurnOnEnds("Error")
         /\ UNCHANGED <<previewVars, tasks, log>>
    ELSE UNCHANGED syncVars

\* syncManually resumes when the event it awaits fired with an empty list:
\* onDidChangeChanges, then (if there are conflicts) onDidChangeConflicts,
\* then task.merge(); ts are the tasks after the step's own calls
Wake(firedChanges, newChanges, firedConflicts, newConflicts, ts) ==
    LET finalMerge == /\ turnOnSt' = [turnOnSt EXCEPT !.pc = "finalMerge"]
                      /\ tasks' = Invoke(ts, turnOnSt.task, "merge")
                      /\ log' = Append(log, "finalMerge")
    IN IF turnOnSt.pc = "waitChanges" /\ firedChanges /\ newChanges = <<>>
       THEN IF newConflicts # <<>>
            THEN /\ turnOnSt' = [turnOnSt EXCEPT !.pc = "waitConflicts"]
                 /\ tasks' = ts
                 /\ UNCHANGED log
            ELSE finalMerge
       ELSE IF turnOnSt.pc = "waitConflicts" /\ firedConflicts /\ newConflicts = <<>>
       THEN finalMerge
       ELSE /\ tasks' = ts
            /\ UNCHANGED <<turnOnSt, log>>

\* a start for which the host supplies no session id
NoBoot ==
    /\ useWorkbenchSessionId = FALSE
    /\ hostSessionId = None
    /\ starts = 1
    /\ adopted = 0

InitRest ==
    /\ refreshes = EmptyBag
    /\ sessionEvents = {}
    /\ storageEvents = 0
    /\ pickSt = IdlePick
    /\ envBudget = MaxEnv
    /\ manualSync = NoSync
    /\ changes = <<>>
    /\ tasks = [t \in TaskIds |-> NoTask]
    /\ showManualSyncViewContext = FALSE
    /\ pendingOp = "none"
    /\ userBudget = MaxUser
    /\ turnOnCount = 0
    /\ turnOnSt = IdleTurnOn
    /\ log = <<>>
    /\ last = L("init")

\* the sessions of a provider in the order getSessions lists them
SortedSessions(S) == CHOOSE q \in SeqsOf(S) : \A i, j \in DOMAIN q : i < j => q[i] < q[j]

\* after construction: nothing fetched yet, no call in flight
InitBase ==
    /\ cached = Null
    /\ all = EmptyAll
    /\ accountStatus = "Uninitialized"
    /\ phase = "constructed"
    /\ InitRest

\* the account service: any configuration, sessions and stored session id
Init ==
    /\ authenticationProviders \in ProviderConfigs
    /\ live \in SUBSET SessionIds
    /\ stored \in {None} \cup SessionIds
    /\ conflicts = <<>>
    /\ NoBoot
    /\ InitBase

\* the first start on a key-value store: any flag, any host session id
InitBoot ==
    /\ authenticationProviders = <<"p1">>
    /\ live \in SUBSET {s \in SessionIds : ProviderOf(s) = "p1"}
    /\ stored \in {None} \cup {s \in SessionIds : ProviderOf(s) = "p1"}
    /\ conflicts = <<>>
    /\ useWorkbenchSessionId \in BOOLEAN
    /\ hostSessionId \in {None} \cup {s \in SessionIds : ProviderOf(s) = "p1"}
    /\ starts = 1
    /\ adopted = 0
    /\ InitBase

\* the preview state machine alone: any conflicts reported at construction
InitPreview ==
    /\ authenticationProviders = <<"p1">>
    /\ live = {}
    /\ stored = None
    /\ conflicts \in {toUserDataSyncResourceGroups(c) : c \in ConflictFeeds}
    /\ NoBoot
    /\ InitBase

\* the enablement sequence: the service after initialize() has completed
\* (listeners registered, first refresh applied) and before any event
InitSync ==
    /\ authenticationProviders \in {<<>>, <<"p1">>}
    /\ live \in {{}, {1}, {1, 2}}
    /\ stored \in {None, 1}
    /\ conflicts \in {toUserDataSyncResourceGroups(c) : c \in SequenceFeeds}
    /\ NoBoot
    /\ IF authenticationProviders = <<>>
       THEN InitBase
       ELSE /\ cached = stored
            /\ all = [p \in Providers |->
                        IF p \in Range(authenticationProviders)
                        THEN getAccounts(SortedSessions({s \in live : ProviderOf(s) = p}), stored)
                        ELSE <<>>]
            /\ accountStatus = updateAccountStatus(CurrentOf(all, stored))
            /\ phase = "listening"
            /\ InitRest


\* initialize(): runs once every configured provider is registered; lines
\* 142-145 adopt the host's session id, then update() runs to its first await
initializeMut ==
    /\ phase = "constructed"
    /\ Len(authenticationProviders) > 0
    /\ phase' = "initializing"
    /\ LET id == currentSessionId
           adopt == id = None /\ useWorkbenchSessionId /\ hostSessionId # None
       IN /\ cached' = IF adopt THEN hostSessionId ELSE id
          /\ stored' = IF adopt THEN hostSessionId ELSE stored
          /\ useWorkbenchSessionId' = useWorkbenchSessionId
          /\ adopted' = IF adopt THEN adopted + 1 ELSE adopted
    /\ refreshes' = update("init", None)
    /\ last' = L("initialize")
    /\ UNCHANGED <<authenticationProviders, live, all, accountStatus,
                   sessionEvents, storageEvents, pickSt, envBudget, hostSessionId, starts>>
    /\ UNCHANGED syncVars
initialize ==
    /\ phase = "constructed"
    /\ Len(authenticationProviders) > 0
    /\ phase' = "initializing"
    /\ LET id == currentSessionId
           adopt == id = None /\ useWorkbenchSessionId /\ hostSessionId # None
       IN /\ cached' = IF adopt THEN hostSessionId ELSE id
          /\ stored' = IF adopt THEN hostSessionId ELSE stored
          /\ useWorkbenchSessionId' = IF adopt THEN FALSE ELSE useWorkbenchSessionId
          /\ adopted' = IF adopt THEN adopted + 1 ELSE adopted
          /\ last' = [L("initialize") EXCEPT !.had = adopt]
    /\ refreshes' = update("init", None)
    /\ UNCHANGED <<authenticationProviders, live, all, accountStatus,
                   sessionEvents, storageEvents, pickSt, envBudget, hostSessionId, starts>>
    /\ UNCHANGED syncVars

\* the window closes and the service is constructed again on the same store;
\* the host may supply another session id, or none
Restart(h) ==
    /\ starts < MaxStarts
    /\ starts' = starts + 1
    /\ hostSessionId' = h
    /\ cached' = Null
    /\ all' = EmptyAll
    /\ accountStatus' = "Uninitialized"
    /\ phase' = "constructed"
    /\ refreshes' = EmptyBag
    /\ sessionEvents' = {}
    /\ storageEvents' = 0
    /\ pickSt' = IdlePick
    /\ last' = L("restart")
    /\ UNCHANGED <<authenticationProviders, live, stored, envBudget, useWorkbenchSessionId,
                   adopted>>
    /\ UNCHANGED syncVars

\* getSessions of provider rec.idx resolves; getAccounts builds the
\* accounts; after the last provider lines 171-173 run up to `await updateAccount`
FetchResolve(rec) ==
    /\ rec.pc = "fetch"
    /\ LET p == authenticationProviders[rec.idx]
       IN \E sessions \in SeqsOf({s \in live : ProviderOf(s) = p}) :
            LET id == currentSessionId
                cached1 == IF sessions = <<>> THEN cached ELSE id
                acc1 == [rec.acc EXCEPT ![p] = getAccounts(sessions, id)]
                saw1 == rec.saw \/ rec.target \in Range(sessions)
            IN IF rec.idx < Len(authenticationProviders)
               THEN /\ refreshes' = (refreshes (-) Put(rec)) (+)
                                        Put([rec EXCEPT !.idx = rec.idx + 1, !.acc = acc1, !.saw = saw1])
                    /\ cached' = cached1
                    /\ last' = L("fetch")
                    /\ UNCHANGED all
               ELSE LET id2 == IF cached1 = Null THEN stored ELSE cached1
                        cur == CurrentOf(acc1, id2)
                    IN /\ all' = acc1
                       /\ cached' = IF FlattenAll(acc1) = <<>> THEN cached1 ELSE id2
                       /\ refreshes' = (refreshes (-) Put(rec)) (+)
                                           Put([rec EXCEPT !.pc = "token", !.acc = acc1,
                                                           !.saw = saw1, !.cur = cur])
                       /\ \E tokenOk \in BOOLEAN :
                            /\ cur = None => tokenOk
                            /\ last' = [L("applied") EXCEPT
                                  !.cont = rec.cont, !.cur = cur,
                                  !.target = rec.target, !.saw = saw1,
                                  !.had = tokenOk,
                                  !.value = updateToken(cur, tokenOk).value,
                                  !.fired = {"updateAccount"} \cup
                                            (IF updateToken(cur, tokenOk).logged
                                             THEN {"logService.error"} ELSE {})]
    /\ UNCHANGED <<bootVars, authenticationProviders, live, stored, accountStatus, phase,
                   sessionEvents, storageEvents, pickSt, envBudget>>
    /\ UNCHANGED syncVars

\* what pick() does once doPick's update() has returned
AfterDoPickUpdateMut ==
    /\ pickSt' = [pickSt EXCEPT !.pc = "chooser",
                                !.items = createQuickpickItems.items,
                                !.offered = createQuickpickItems.offered]
    /\ cached' = CacheAfterCurrent(all)
AfterDoPickUpdate ==
    IF Len(authenticationProviders) = 1 /\ FlattenAll(all) = <<>>
    THEN /\ pickSt' = [pickSt EXCEPT !.pc = "login", !.prov = authenticationProviders[1]]
         /\ UNCHANGED cached
    ELSE /\ pickSt' = [pickSt EXCEPT !.pc = "chooser",
                                     !.items = createQuickpickItems.items,
                                     !.offered = createQuickpickItems.offered]
         /\ cached' = CacheAfterCurrent(all)

\* updateAccount resolves: updateAccountStatus(current) and the caller
\* continues; onDidSuccessiveAuthFailures then calls notificationService.notify
TokenResolve(rec) ==
    /\ rec.pc = "token"
    /\    /\ accountStatus' = updateAccountStatus(rec.cur)
          /\ refreshes' = refreshes (-) Put(rec)
          /\ last' = [L("refreshDone") EXCEPT
                         !.cont = rec.cont, !.cur = rec.cur,
                         !.target = rec.target, !.saw = rec.saw,
                         !.prev = accountStatus,
                         !.res = updateAccountStatus(rec.cur),
                         !.fired = (IF StatusFires(accountStatus, updateAccountStatus(rec.cur))
                                    THEN {"onDidChangeAccountStatus"} ELSE {}) \cup
                                   (IF rec.cont = "authfail" THEN {"notify"} ELSE {})]
          /\ CASE rec.cont = "init" ->
                    /\ phase' = "listening"
                    /\ UNCHANGED <<pickSt, cached>>
               [] rec.cont = "doPick" ->
                    /\ AfterDoPickUpdate
                    /\ UNCHANGED phase
               [] rec.cont = "switch" ->
                    /\ pickSt' = IdlePick
                    /\ UNCHANGED <<phase, cached>>
               [] OTHER ->
                    UNCHANGED <<phase, pickSt, cached>>
          /\ IF rec.cont = "switch"
             THEN PickReturns(TRUE, updateAccountStatus(rec.cur))
             ELSE UNCHANGED syncVars
    /\ UNCHANGED <<bootVars, authenticationProviders, live, stored, all,
                   sessionEvents, storageEvents, envBudget>>

\* Event.any(onDidRegister/UnregisterAuthenticationProvider of a configured
\* provider, onTokenFailed(not successive)) => update()
onProviderOrTokenEvent ==
    /\ phase = "listening"
    /\ envBudget > 0
    /\ CanStart
    /\ envBudget' = envBudget - 1
    /\ refreshes' = update("none", None)
    /\ last' = L("trigger")
    /\ UNCHANGED <<bootVars, authenticationProviders, live, stored, cached, all, accountStatus, phase,
                   sessionEvents, storageEvents, pickSt>>
    /\ UNCHANGED syncVars

\* onTokenFailed(successive) => onDidSuccessiveAuthFailures(), up to `await update()`
onDidSuccessiveAuthFailures ==
    /\ phase = "listening"
    /\ envBudget > 0
    /\ CanStart
    /\ envBudget' = envBudget - 1
    /\ cached' = SetCurrentSessionId(None)[1]
    /\ stored' = SetCurrentSessionId(None)[2]
    /\ refreshes' = update("authfail", None)
    /\ last' = L("authfail")
    /\ UNCHANGED <<bootVars, authenticationProviders, live, all, accountStatus, phase,
                   sessionEvents, storageEvents, pickSt>>
    /\ UNCHANGED syncVars

\* a provider gains or loses session s and raises onDidChangeSessions; the
\* listener exists once initialize() has registered it, for configured providers
SessionsChange(s) ==
    /\ envBudget > 0
    /\ envBudget' = envBudget - 1
    /\ live' = IF s \in live THEN live \ {s} ELSE live \cup {s}
    /\ sessionEvents' =
          IF phase = "listening" /\ ProviderOf(s) \in Range(authenticationProviders)
          THEN sessionEvents \cup {[removed |-> IF s \in live THEN {s} ELSE {}]}
          ELSE sessionEvents
    /\ last' = L("sessionsChange")
    /\ UNCHANGED <<bootVars, authenticationProviders, stored, cached, all, accountStatus, phase,
                   refreshes, storageEvents, pickSt>>
    /\ UNCHANGED syncVars

\* onDidChangeSessions(e), up to update()'s await; the refresh that follows a
\* cleared session id is tagged, last.had: the id was cleared
onDidChangeSessionsMut(e) ==
    /\ e \in sessionEvents
    /\ CanStart
    /\ sessionEvents' = sessionEvents \ {e}
    /\ LET id == currentSessionId
       IN /\ cached' = id
          /\ UNCHANGED stored
          /\ refreshes' = update(IF id # None /\ id \in e.removed
                                 THEN "sessionsCleared" ELSE "none", None)
          /\ last' = [L("onDidChangeSessions") EXCEPT !.had = FALSE]
    /\ UNCHANGED <<bootVars, authenticationProviders, live, all, accountStatus, phase,
                   storageEvents, pickSt, envBudget>>
    /\ UNCHANGED syncVars
onDidChangeSessions(e) ==
    /\ e \in sessionEvents
    /\ CanStart
    /\ sessionEvents' = sessionEvents \ {e}
    /\ LET id == currentSessionId
       IN IF id # None /\ id \in e.removed
          THEN /\ cached' = None
               /\ stored' = None
               /\ refreshes' = update("sessionsCleared", None)
               /\ last' = [L("onDidChangeSessions") EXCEPT !.had = TRUE]
          ELSE /\ cached' = id
               /\ UNCHANGED stored
               /\ refreshes' = update("none", None)
               /\ last' = L("onDidChangeSessions")
    /\ UNCHANGED <<bootVars, authenticationProviders, live, all, accountStatus, phase,
                   storageEvents, pickSt, envBudget>>
    /\ UNCHANGED syncVars

\* another window stores or removes the session key
OtherWindowStore(v) ==
    /\ envBudget > 0
    /\ v # stored
    /\ envBudget' = envBudget - 1
    /\ stored' = v
    /\ storageEvents' = IF phase = "listening" THEN storageEvents + 1 ELSE storageEvents
    /\ last' = L("otherWindowStore")
    /\ UNCHANGED <<bootVars, authenticationProviders, live, cached, all, accountStatus, phase,
                   refreshes, sessionEvents, pickSt>>
    /\ UNCHANGED syncVars

\* onDidChangeStorage for the session key; last.had: the stored value differed
onDidChangeStorageMut ==
    /\ storageEvents > 0
    /\ storageEvents' = storageEvents - 1
    /\ IF currentSessionId # getStoredCachedSessionId
       THEN /\ CanStart
            /\ cached' = currentSessionId
            /\ refreshes' = update("none", None)
       ELSE /\ cached' = currentSessionId
            /\ UNCHANGED refreshes
    /\ last' = [L("onDidChangeStorage") EXCEPT
                   !.had = currentSessionId # getStoredCachedSessionId]
    /\ UNCHANGED <<bootVars, authenticationProviders, live, stored, all, accountStatus, phase,
                   sessionEvents, pickSt, envBudget>>
    /\ UNCHANGED syncVars
onDidChangeStorage ==
    /\ storageEvents > 0
    /\ storageEvents' = storageEvents - 1
    /\ IF currentSessionId # getStoredCachedSessionId
       THEN /\ CanStart
            /\ cached' = Null
            /\ refreshes' = update("none", None)
       ELSE /\ cached' = currentSessionId
            /\ UNCHANGED refreshes
    /\ last' = [L("onDidChangeStorage") EXCEPT
                   !.had = currentSessionId # getStoredCachedSessionId]
    /\ UNCHANGED <<bootVars, authenticationProviders, live, stored, all, accountStatus, phase,
                   sessionEvents, pickSt, envBudget>>
    /\ UNCHANGED syncVars

\* switch(sessionId, ...), up to `await update()`
switch(s) ==
    /\ CanStart
    /\ LET c1 == CacheAfterCurrent(all)
       IN /\ cached' = s
          /\ stored' = IF c1 # s THEN s ELSE stored
    /\ refreshes' = update("switch", s)
    /\ pickSt' = [pickSt EXCEPT !.pc = "switch"]

\* pick() up to doPick's `await update()`; with no provider doPick returns undefined
pick(owner) ==
    IF Len(authenticationProviders) = 0
    THEN /\ UNCHANGED <<refreshes, pickSt>>
         /\ last' = [L("pickFalse") EXCEPT !.res = owner]
    ELSE /\ CanStart
         /\ refreshes' = update("doPick", None)
         /\ pickSt' = [IdlePick EXCEPT !.pc = "update", !.owner = owner]
         /\ last' = [L("pick") EXCEPT !.res = owner]

signIn ==
    /\ pickSt.pc = "idle"
    /\ envBudget > 0
    /\ envBudget' = envBudget - 1
    /\ pick("signIn")
    /\ UNCHANGED <<bootVars, authenticationProviders, live, stored, cached, all, accountStatus, phase,
                   sessionEvents, storageEvents>>
    /\ UNCHANGED syncVars

\* quickPick.onDidAccept with an account item selected, then onDidHide
ChooserAcceptAccount(s) ==
    /\ pickSt.pc = "chooser"
    /\ s \in pickSt.items
    /\ switch(s)
    /\ last' = [L("switch") EXCEPT !.target = s]
    /\ UNCHANGED <<bootVars, authenticationProviders, live, all, accountStatus, phase,
                   sessionEvents, storageEvents, envBudget>>
    /\ UNCHANGED syncVars

\* quickPick.onDidAccept with a sign-in item selected: login(provider)
ChooserAcceptProvider(p) ==
    /\ pickSt.pc = "chooser"
    /\ p \in pickSt.offered
    /\ pickSt' = [pickSt EXCEPT !.pc = "login", !.prov = p]
    /\ last' = L("login")
    /\ UNCHANGED <<bootVars, authenticationProviders, live, stored, cached, all, accountStatus, phase,
                   refreshes, sessionEvents, storageEvents, envBudget>>
    /\ UNCHANGED syncVars

\* quickPick.onDidHide with nothing selected: doPick resolves undefined
ChooserHide ==
    /\ pickSt.pc = "chooser"
    /\ pickSt' = IdlePick
    /\ last' = [L("pickFalse") EXCEPT !.res = pickSt.owner]
    /\ PickReturns(FALSE, accountStatus)
    /\ UNCHANGED <<bootVars, authenticationProviders, live, stored, cached, all, accountStatus, phase,
                   refreshes, sessionEvents, storageEvents, envBudget>>

\* login resolves with a new session s of the provider; pick() switches to it
LoginResolve(s) ==
    /\ pickSt.pc = "login"
    /\ s \notin live
    /\ ProviderOf(s) = pickSt.prov
    /\ live' = live \cup {s}
    /\ sessionEvents' = IF phase = "listening"
                        THEN sessionEvents \cup {[removed |-> {}]} ELSE sessionEvents
    /\ switch(s)
    /\ last' = [L("switch") EXCEPT !.target = s]
    /\ UNCHANGED <<bootVars, authenticationProviders, all, accountStatus, phase, storageEvents, envBudget>>
    /\ UNCHANGED syncVars

\* login rejects: pick() throws
LoginFail ==
    /\ pickSt.pc = "login"
    /\ pickSt' = IdlePick
    /\ last' = [L("pickThrows") EXCEPT !.res = pickSt.owner]
    /\ PickThrows
    /\ UNCHANGED <<bootVars, authenticationProviders, live, stored, cached, all, accountStatus, phase,
                   refreshes, sessionEvents, storageEvents, envBudget>>

\* ------------------------------------------------------ turnOn: steps
\* turnOn() up to the first await of pick()
turnOn ==
    /\ turnOnSt.pc = "idle"
    /\ pickSt.pc = "idle"
    /\ turnOnCount < MaxTurnOn
    /\ turnOnCount' = turnOnCount + 1
    /\ log' = <<"pick">>
    /\ turnOnSt' = IF Len(authenticationProviders) = 0
                   THEN [IdleTurnOn EXCEPT !.result = "Cancelled"]
                   ELSE [IdleTurnOn EXCEPT !.pc = "pick"]
    /\ pick("turnOn")
    /\ UNCHANGED <<bootVars, authenticationProviders, live, stored, cached, all, accountStatus, phase,
                   sessionEvents, storageEvents, envBudget>>
    /\ UNCHANGED <<manualSync, changes, conflicts, showManualSyncViewContext, pendingOp,
                   userBudget, tasks>>

\* the catch and finally blocks of syncBeforeTurningOn, up to `await stop()`
catchErrorMut(st, err) ==
    /\ turnOnSt' = [st EXCEPT !.pc = "idle", !.err = err, !.result = err]
    /\ tasks' = [tasks EXCEPT ![turnOnSt.task].st = "disposed"]
    /\ log' = Append(log, "dispose")
catchError(st, err) ==
    /\ turnOnSt' = [st EXCEPT !.pc = "stop", !.err = err]
    /\ tasks' = [tasks EXCEPT ![turnOnSt.task].st = "stopped"]
    /\ log' = Append(log, "stop")

\* the sync step returned: finally dispose(), then turnOn calls autoSync.turnOn()
syncStepDone(ts) ==
    /\ turnOnSt' = [turnOnSt EXCEPT !.pc = "autoSyncTurnOn"]
    /\ tasks' = [ts EXCEPT ![turnOnSt.task].st = "disposed"]
    /\ log' = log \o <<"syncStepDone", "dispose", "autoSyncTurnOn">>

\* the switch (action) of syncBeforeTurningOn and, for 'manual', syncManually up
\* to `await executeCommand`: setManualSyncPreview and the view context
runAction(st, action) ==
    IF action = "manual"
    THEN LET ms == [task |-> turnOnSt.task, preview |-> turnOnSt.preview]
             ch == updateChanges(ms, conflicts, changes)
         IN /\ manualSync' = ms
            /\ changes' = ch.changes
            /\ showManualSyncViewContext' = TRUE
            /\ turnOnSt' = [st EXCEPT !.pc = "executeCommand", !.action = action]
            /\ log' = log \o <<"manual", "setManualSyncPreview", "showView">>
            /\ last' = [L("setManualSyncPreview") EXCEPT !.fired = Fired(ch.fired, FALSE)]
            /\ UNCHANGED tasks
    ELSE /\ turnOnSt' = [st EXCEPT !.pc = action, !.action = action]
         /\ tasks' = Invoke(tasks, turnOnSt.task, action)
         /\ log' = Append(log, action)
         /\ last' = [L("taskStep") EXCEPT !.task = turnOnSt.task]
         /\ UNCHANGED <<manualSync, changes, showManualSyncViewContext>>

TurnOnFrame == UNCHANGED <<acctVars, conflicts, pendingOp, userBudget, turnOnCount>>

ResetLocalResolve(ok) ==
    /\ turnOnSt.pc = "resetLocal"
    /\ IF ok
       THEN /\ turnOnSt' = [turnOnSt EXCEPT !.pc = "createTask"]
            /\ log' = Append(log, "createManualSyncTask")
       ELSE /\ TurnOnEnds("Error")
            /\ UNCHANGED log
    /\ last' = [L("resetLocal") EXCEPT !.res = IF ok THEN "ok" ELSE "failed"]
    /\ UNCHANGED <<manualSync, changes, showManualSyncViewContext, tasks>>
    /\ TurnOnFrame

CreateTaskResolve(ok) ==
    /\ turnOnSt.pc = "createTask"
    /\ IF ok
       THEN LET t == Cardinality({x \in TaskIds : tasks[x].st # "none"}) + 1
            IN /\ turnOnSt' = [turnOnSt EXCEPT !.pc = "preview", !.task = t]
               /\ tasks' = [tasks EXCEPT ![t].st = "running"]
               /\ log' = Append(log, "preview")
       ELSE /\ TurnOnEnds("Error")
            /\ UNCHANGED <<tasks, log>>
    /\ last' = [L("createManualSyncTask") EXCEPT !.res = IF ok THEN "ok" ELSE "failed"]
    /\ UNCHANGED <<manualSync, changes, showManualSyncViewContext>>
    /\ TurnOnFrame

\* task.preview() resolves; manifest is read; hasLocalData() is called
PreviewResolve(ok, P, hasRemoteData) ==
    /\ turnOnSt.pc = "preview"
    /\ IF ok
       THEN /\ turnOnSt' = [turnOnSt EXCEPT !.pc = "hasLocalData", !.preview = P,
                                            !.hasRemoteData = hasRemoteData]
            /\ UNCHANGED <<tasks, log>>
       ELSE /\ P = <<>> /\ ~hasRemoteData
            /\ catchError(turnOnSt, "Error")
    /\ last' = [L("preview") EXCEPT !.res = IF ok THEN "ok" ELSE "failed"]
    /\ UNCHANGED <<manualSync, changes, showManualSyncViewContext>>
    /\ TurnOnFrame

\* hasLocalData() resolves; getFirstTimeSyncAction runs up to its dialog
HasLocalDataResolve(ok, hasLocalData) ==
    /\ turnOnSt.pc = "hasLocalData"
    /\ IF ok
       THEN LET d == getFirstTimeSyncAction(turnOnSt.hasRemoteData, hasLocalData,
                                            hasChangesOf(turnOnSt.preview),
                                            isLastSyncFromCurrentMachineOf(turnOnSt.preview))
            IN IF d = "prompt"
               THEN /\ turnOnSt' = [turnOnSt EXCEPT !.pc = "dialog", !.prompted = TRUE,
                                                    !.hasLocalData = hasLocalData]
                    /\ log' = Append(log, "decision")
                    /\ last' = [L("hasLocalData") EXCEPT !.res = "ok"]
                    /\ UNCHANGED <<manualSync, changes, showManualSyncViewContext, tasks>>
               ELSE /\ turnOnSt' = [turnOnSt EXCEPT !.pc = d, !.action = d,
                                                    !.hasLocalData = hasLocalData]
                    /\ tasks' = Invoke(tasks, turnOnSt.task, d)
                    /\ log' = log \o <<"decision", d>>
                    /\ last' = [L("taskStep") EXCEPT !.task = turnOnSt.task]
                    /\ UNCHANGED <<manualSync, changes, showManualSyncViewContext>>
       ELSE /\ ~hasLocalData
            /\ catchError(turnOnSt, "Error")
            /\ last' = [L("hasLocalData") EXCEPT !.res = "failed"]
            /\ UNCHANGED <<manualSync, changes, showManualSyncViewContext>>
    /\ TurnOnFrame

\* the dialog closes with result.choice
DialogResolve(choice) ==
    /\ turnOnSt.pc = "dialog"
    /\ LET a == ChoiceAction(choice)
           st == [turnOnSt EXCEPT !.choice = choice]
       IN IF a = "Cancelled"
          THEN /\ catchError(st, "Cancelled")
               /\ last' = [L("dialog") EXCEPT !.res = "failed"]
               /\ UNCHANGED <<manualSync, changes, showManualSyncViewContext>>
          ELSE runAction(st, a)
    /\ TurnOnFrame

\* manualSyncTask.merge/pull/push of the sync step resolves
TaskStepResolve(ok) ==
    /\ turnOnSt.pc \in {"merge", "pull", "push"}
    /\ IF ok THEN syncStepDone(tasks) ELSE catchError(turnOnSt, "Error")
    /\ last' = [L("taskStepDone") EXCEPT !.res = IF ok THEN "ok" ELSE "failed"]
    /\ UNCHANGED <<manualSync, changes, showManualSyncViewContext>>
    /\ TurnOnFrame

ExecuteCommandResolve(ok) ==
    /\ turnOnSt.pc = "executeCommand"
    /\ IF ok
       THEN /\ turnOnSt' = [turnOnSt EXCEPT !.pc = "openView"]
            /\ UNCHANGED <<tasks, log>>
       ELSE catchError(turnOnSt, "Error")
    /\ last' = [L("executeCommand") EXCEPT !.res = IF ok THEN "ok" ELSE "failed"]
    /\ UNCHANGED <<manualSync, changes, showManualSyncViewContext>>
    /\ TurnOnFrame

OpenViewResolve(ok) ==
    /\ turnOnSt.pc = "openView"
    /\ IF ok
       THEN /\ turnOnSt' = [turnOnSt EXCEPT !.pc = "waitChanges"]
            /\ UNCHANGED <<tasks, log>>
       ELSE catchError(turnOnSt, "Error")
    /\ last' = [L("openView") EXCEPT !.res = IF ok THEN "ok" ELSE "failed"]
    /\ UNCHANGED <<manualSync, changes, showManualSyncViewContext>>
    /\ TurnOnFrame

\* the task.merge() that ends syncManually resolves
FinalMergeResolve(ok) ==
    /\ turnOnSt.pc = "finalMerge"
    /\ IF ok THEN syncStepDone(tasks) ELSE catchError(turnOnSt, "Error")
    /\ last' = [L("finalMergeDone") EXCEPT !.res = IF ok THEN "ok" ELSE "failed"]
    /\ UNCHANGED <<manualSync, changes, showManualSyncViewContext>>
    /\ TurnOnFrame

\* manualSyncTask.stop() resolves: throw error; finally dispose()
StopResolve(ok) ==
    /\ turnOnSt.pc = "stop"
    /\ TurnOnEnds(IF ok THEN turnOnSt.err ELSE "Error")
    /\ tasks' = [tasks EXCEPT ![turnOnSt.task].st = "disposed"]
    /\ log' = Append(log, "dispose")
    /\ last' = [L("stop") EXCEPT !.res = IF ok THEN "ok" ELSE "failed"]
    /\ UNCHANGED <<manualSync, changes, showManualSyncViewContext>>
    /\ TurnOnFrame

AutoSyncTurnOnResolve(ok) ==
    /\ turnOnSt.pc = "autoSyncTurnOn"
    /\ TurnOnEnds(IF ok THEN "ok" ELSE "Error")
    /\ last' = [L("autoSyncTurnOn") EXCEPT !.res = IF ok THEN "ok" ELSE "failed"]
    /\ UNCHANGED <<manualSync, changes, showManualSyncViewContext, tasks, log>>
    /\ TurnOnFrame

\* ------------------------------------------- UserDataSyncPreview: steps
\* setManualSyncPreview(task, preview), called with a task its caller created
setManualSyncPreview(task, preview) ==
    /\ userBudget > 0
    /\ pendingOp = "none"
    /\ userBudget' = userBudget - 1
    /\ LET ms == [task |-> task, preview |-> preview]
           ch == updateChanges(ms, conflicts, changes)
       IN /\ manualSync' = ms
          /\ changes' = ch.changes
          /\ last' = [L("setManualSyncPreview") EXCEPT !.fired = Fired(ch.fired, FALSE)]
    /\ tasks' = [tasks EXCEPT ![task].st = IF @ = "none" THEN "running" ELSE @]
    /\ UNCHANGED <<acctVars, conflicts, showManualSyncViewContext, pendingOp, turnOnCount,
                   turnOnSt, log>>

PreviewFrame == UNCHANGED <<acctVars, showManualSyncViewContext, turnOnCount>>

\* accept(), up to its await: of manualSync.task.accept (line 570) or of
\* userDataSyncService.acceptPreviewContent (line 573)
acceptMut ==
    /\ userBudget > 0
    /\ pendingOp = "none"
    /\ userBudget' = userBudget - 1
    /\ last' = [L("accept") EXCEPT !.res = "engine"]
    /\ pendingOp' = "acceptPreviewContent"
    /\ UNCHANGED tasks
    /\ UNCHANGED <<manualSync, changes, conflicts, turnOnSt, log>>
    /\ PreviewFrame
accept ==
    /\ userBudget > 0
    /\ pendingOp = "none"
    /\ userBudget' = userBudget - 1
    /\ IF manualSync # NoSync
       THEN /\ tasks' = Invoke(tasks, manualSync.task, "accept")
            /\ pendingOp' = "accept"
            /\ last' = [L("accept") EXCEPT !.res = "called", !.task = manualSync.task,
                                           !.taskState = tasks[manualSync.task].st,
                                           !.had = TRUE]
       ELSE /\ last' = [L("accept") EXCEPT !.res = "engine"]
            /\ pendingOp' = "acceptPreviewContent"
            /\ UNCHANGED tasks
    /\ UNCHANGED <<manualSync, changes, conflicts, turnOnSt, log>>
    /\ PreviewFrame

\* merge(), pull(), push(), up to their await
PreviewOp(op) ==
    /\ userBudget > 0
    /\ pendingOp = "none"
    /\ userBudget' = userBudget - 1
    /\ LET res == RequireManualSync(manualSync)
       IN IF res = "called"
          THEN /\ tasks' = Invoke(tasks, manualSync.task, op)
               /\ pendingOp' = op
               /\ last' = [L(op) EXCEPT !.res = res, !.task = manualSync.task,
                                        !.taskState = tasks[manualSync.task].st,
                                        !.had = TRUE]
          ELSE /\ last' = [L(op) EXCEPT !.res = res]
               /\ UNCHANGED <<tasks, pendingOp>>
    /\ UNCHANGED <<manualSync, changes, conflicts, turnOnSt, log>>
    /\ PreviewFrame

merge == PreviewOp("merge")
pull == PreviewOp("pull")
push == PreviewOp("push")

\* the call awaited by accept/merge/pull/push resolves: the task's calls are
\* followed by updatePreview (P: the preview returned, [] after pull and
\* push), acceptPreviewContent by nothing
PreviewOpResolve(ok, P) ==
    /\ pendingOp # "none"
    /\ pendingOp' = "none"
    /\ (pendingOp \in {"pull", "push", "acceptPreviewContent"} \/ ~ok) => P = <<>>
    /\ IF pendingOp = "acceptPreviewContent"
       THEN /\ last' = [L("acceptPreviewContent") EXCEPT
                           !.res = IF ok THEN "ok" ELSE "failed"]
            /\ UNCHANGED <<manualSync, changes, tasks, turnOnSt, log>>
       ELSE IF ok /\ manualSync # NoSync
       THEN LET ms == [manualSync EXCEPT !.preview = P]
                ch == updateChanges(ms, conflicts, changes)
            IN /\ manualSync' = ms
               /\ changes' = ch.changes
               /\ last' = [L("updatePreview") EXCEPT !.fired = Fired(ch.fired, FALSE),
                                                     !.cont = pendingOp,
                                                     !.preview = P]
               /\ Wake(ch.fired, ch.changes, FALSE, conflicts, tasks)
       ELSE /\ last' = L("previewOpThrows")
            /\ UNCHANGED <<manualSync, changes, tasks, turnOnSt, log>>
    /\ UNCHANGED <<conflicts, userBudget>>
    /\ PreviewFrame

\* userDataSyncService.onDidChangeConflicts(feed) => updateConflicts(feed)
onDidChangeConflicts(feed) ==
    /\ userBudget > 0
    /\ userBudget' = userBudget - 1
    /\ LET u == updateConflicts(feed, manualSync, conflicts, changes)
       IN /\ conflicts' = u.conflicts
          /\ changes' = u.changes
          /\ last' = [L("updateConflicts") EXCEPT
                         !.fired = Fired(u.firedChanges, u.firedConflicts),
                         !.preview = feed]
          /\ Wake(u.firedChanges, u.changes, u.firedConflicts, u.conflicts, tasks)
    /\ UNCHANGED <<manualSync, pendingOp>>
    /\ PreviewFrame

\* the URIs the decorations service asks about: the remote URIs of the
\* resources and a local one
DecorationUris == {"r1", "r2", "r3", "u1"}

\* the decorations service calls provideDecorations(resource)
ProvideDecorations(resource) ==
    /\ last' = [L("provideDecorations") EXCEPT
                   !.cont = resource,
                   !.res = provideDecorations(changes, conflicts, resource)]
    /\ UNCHANGED <<acctVars, syncVars>>

Next ==
    \/ initialize
    \/ \E rec \in InFlight : FetchResolve(rec)
    \/ \E rec \in InFlight : TokenResolve(rec)
    \/ onProviderOrTokenEvent
    \/ onDidSuccessiveAuthFailures
    \/ \E s \in SessionIds : SessionsChange(s)
    \/ \E e \in sessionEvents : onDidChangeSessions(e)
    \/ \E v \in {None} \cup SessionIds : OtherWindowStore(v)
    \/ onDidChangeStorage
    \/ signIn
    \/ \E s \in SessionIds : ChooserAcceptAccount(s)
    \/ \E p \in Providers : ChooserAcceptProvider(p)
    \/ ChooserHide
    \/ \E s \in SessionIds : LoginResolve(s)
    \/ LoginFail

Spec == Init /\ [][Next]_vars

\* the enablement sequence and the preview state machine, with the account
\* service steps that pick() and switch() take
NextSync ==
    \/ \E rec \in InFlight : FetchResolve(rec)
    \/ \E rec \in InFlight : TokenResolve(rec)
    \/ \E e \in sessionEvents : onDidChangeSessions(e)
    \/ \E s \in SessionIds : ChooserAcceptAccount(s)
    \/ \E p \in Providers : ChooserAcceptProvider(p)
    \/ ChooserHide
    \/ \E s \in SessionIds : LoginResolve(s)
    \/ LoginFail
    \/ turnOn
    \/ \E ok \in BOOLEAN : ResetLocalResolve(ok)
    \/ \E ok \in BOOLEAN : CreateTaskResolve(ok)
    \/ \E ok \in BOOLEAN, P \in SequencePreviews, hr \in BOOLEAN : PreviewResolve(ok, P, hr)
    \/ \E ok \in BOOLEAN, hl \in BOOLEAN : HasLocalDataResolve(ok, hl)
    \/ \E choice \in 0..3 : DialogResolve(choice)
    \/ \E ok \in BOOLEAN : TaskStepResolve(ok)
    \/ \E ok \in BOOLEAN : ExecuteCommandResolve(ok)
    \/ \E ok \in BOOLEAN : OpenViewResolve(ok)
    \/ \E ok \in BOOLEAN : FinalMergeResolve(ok)
    \/ \E ok \in BOOLEAN : StopResolve(ok)
    \/ \E ok \in BOOLEAN : AutoSyncTurnOnResolve(ok)
    \/ accept
    \/ merge
    \/ pull
    \/ push
    \/ \E ok \in BOOLEAN, P \in SequencePreviews : PreviewOpResolve(ok, P)
    \/ \E feed \in SequenceFeeds : onDidChangeConflicts(feed)

SpecSync == InitSync /\ [][NextSync]_vars

\* the preview state machine with every input its collaborators can give it
NextPreview ==
    \/ \E task \in TaskIds, P \in TaskPreviews : setManualSyncPreview(task, P)
    \/ accept
    \/ merge
    \/ pull
    \/ push
    \/ \E ok \in BOOLEAN, P \in TaskPreviews : PreviewOpResolve(ok, P)
    \/ \E feed \in ConflictFeeds : onDidChangeConflicts(feed)
    \/ \E resource \in DecorationUris : ProvideDecorations(resource)

SpecPreview == InitPreview /\ [][NextPreview]_vars

\* starts and restarts of the service on one key-value store
NextBoot ==
    \/ initialize
    \/ \E rec \in InFlight : FetchResolve(rec)
    \/ \E rec \in InFlight : TokenResolve(rec)
    \/ onDidSuccessiveAuthFailures
    \/ \E s \in SessionIds : SessionsChange(s)
    \/ \E e \in sessionEvents : onDidChangeSessions(e)
    \/ \E h \in {None} \cup {s \in SessionIds : ProviderOf(s) = "p1"} : Restart(h)

SpecBoot == InitBoot /\ [][NextBoot]_vars

\* ------------------------------------------------------------------ claims

\* C1 (as stated): in every reachable state accountStatus is Available if and
\* only if current is defined.
C1_StatusIffCurrent == (accountStatus = "Available") <=> (current # None)

\* C1 (amended): accountStatus changes only in the last step of a refresh, and
\* right after that step it is Available if and only if the current account the
\* refresh read when it replaced the account set was defined.
C1_StatusSetByRefresh ==
    [][/\ (last'.op = "refreshDone" =>
             ((accountStatus' = "Available" /\ last'.cur # None)
              \/ (accountStatus' = "Unavailable" /\ last'.cur = None)))
       /\ (accountStatus' # accountStatus => last'.op = "refreshDone")]_vars

C1_Witness ==
    /\ last.op = "refreshDone"
    /\ last.cur # None
    /\ last.prev = "Unavailable"
    /\ accountStatus = "Available"

\* C2: whenever a refresh completes, either current is defined and its
\* sessionId equals the current session id, or current is undefined and
\* accountStatus is Unavailable.
C2_AfterRefresh ==
    last.op = "refreshDone" =>
        \/ (current # None /\ current = currentSessionId)
        \/ (current = None /\ accountStatus = "Unavailable")

\* C3: switch(S) followed by its refresh ends with current.sessionId = S, for
\* every S that was among the sessions the refresh fetched (and that is still
\* live and still the current session id when the refresh ends).
C3_SwitchThenRefresh ==
    (last.op = "refreshDone" /\ last.cont = "switch" /\ last.saw
        /\ last.target \in live /\ currentSessionId = last.target)
    => current = last.target

IsPrefix(a, b) == Len(a) <= Len(b) /\ \A i \in DOMAIN a : a[i] = b[i]
EndsWith(a, b) == Len(b) <= Len(a) /\ \A i \in DOMAIN b : a[Len(a) - Len(b) + i] = b[i]

\* C4: no entry of changes has the local URI of an entry of conflicts,
\* whatever the resource kinds of the two entries.
C4_ChangesDisjointConflicts ==
    \A i \in DOMAIN changes : \A j \in DOMAIN conflicts : changes[i].local # conflicts[j].local

\* C5: a manual sync session is active only until the enablement sequence that
\* installed it has ended: once its task is disposed no session is active and
\* no operation is invoked on the disposed task.
C5_SessionOnlyDuringSequence ==
    /\ manualSync # NoSync => tasks[manualSync.task].st # "disposed"
    /\ last.taskState # "disposed"

\* C6: merge, pull and push called with no manual sync session fail with
\* InvalidState, call no task, fire no event and leave changes, conflicts and
\* the preview unchanged.
C6_InvalidState ==
    [][(last'.op \in {"merge", "pull", "push"} /\ manualSync = NoSync) =>
          /\ last'.res = "InvalidState"
          /\ last'.fired = {}
          /\ UNCHANGED <<manualSync, changes, conflicts, tasks, pendingOp>>]_vars

C6_Witness ==
    /\ last.op \in {"merge", "pull", "push"}
    /\ last.res = "InvalidState"
    /\ manualSync = NoSync
    /\ conflicts # <<>>

\* the steps of syncBeforeTurningOn inside its try block
TrySteps == {"preview", "hasLocalData", "dialog", "taskStepDone", "executeCommand",
             "openView", "finalMergeDone"}

\* C7: a cancelled prompt or a failed step after the task was created makes the
\* sequence call stop and then dispose on the task, never autoSync.turnOn, and
\* turnOn throws; a dismissed account picker makes turnOn throw Cancelled
\* before resetLocal and createManualSyncTask.
C7_CancelUnwinds ==
    /\ (last.op \in TrySteps /\ last.res = "failed") =>
          /\ turnOnSt.pc = "stop"
          /\ turnOnSt.err \in {"Cancelled", "Error"}
          /\ (last.op = "dialog" => turnOnSt.err = "Cancelled")
          /\ tasks[turnOnSt.task].st = "stopped"
          /\ EndsWith(log, <<"stop">>)
    /\ turnOnSt.err # "none" =>
          /\ "autoSyncTurnOn" \notin Range(log)
          /\ turnOnSt.pc \in {"stop", "idle"}
          /\ turnOnSt.pc = "idle" =>
                /\ EndsWith(log, <<"stop", "dispose">>)
                /\ tasks[turnOnSt.task].st = "disposed"
                /\ turnOnSt.result \in {turnOnSt.err, "Error"}
    /\ (last.op = "pickFalse" /\ last.res = "turnOn") =>
          /\ turnOnSt.pc = "idle"
          /\ turnOnSt.result = "Cancelled"
          /\ turnOnSt.task = 0
          /\ log = <<"pick">>

C7_Witness ==
    /\ turnOnSt.pc = "idle"
    /\ turnOnSt.err = "Cancelled"
    /\ turnOnSt.result = "Cancelled"
    /\ EndsWith(log, <<"decision", "stop", "dispose">>)

MainSteps == {"pick", "statusCheck", "resetLocal", "createManualSyncTask", "preview",
              "decision", "merge", "pull", "push", "manual", "syncStepDone", "autoSyncTurnOn"}
Order(a) == <<"pick", "statusCheck", "resetLocal", "createManualSyncTask", "preview",
              "decision", a, "syncStepDone", "autoSyncTurnOn">>
MainLog == SelectSeq(log, LAMBDA x : x \in MainSteps)

\* C8: the steps of an enablement sequence run in the order pick, status
\* check, resetLocal, createManualSyncTask, preview, decision (once), sync
\* step, autoSync.turnOn, each after the one before it returned; no task
\* merge/pull/push before the decision returned.
C8_StepsInOrder ==
    /\ \E a \in {"merge", "pull", "push", "manual"} : IsPrefix(MainLog, Order(a))
    /\ turnOnSt.pc \in {"resetLocal", "autoSyncTurnOn"} => EndsWith(MainLog, <<turnOnSt.pc>>)
    /\ turnOnSt.pc = "createTask" => EndsWith(MainLog, <<"createManualSyncTask">>)
    /\ turnOnSt.pc \in {"preview", "hasLocalData"} => EndsWith(MainLog, <<"preview">>)
    /\ turnOnSt.pc = "dialog" => EndsWith(MainLog, <<"decision">>)
    /\ turnOnSt.pc \in {"merge", "pull", "push"} => EndsWith(MainLog, <<"decision", turnOnSt.pc>>)
    /\ turnOnSt.pc \in {"executeCommand", "openView", "waitChanges", "waitConflicts", "finalMerge"}
          => EndsWith(MainLog, <<"decision", "manual">>)
    /\ turnOnSt.pc \in {"preview", "hasLocalData", "dialog"} =>
          tasks[turnOnSt.task].merge + tasks[turnOnSt.task].pull + tasks[turnOnSt.task].push = 0

C8_Witness ==
    /\ turnOnSt.result = "ok"
    /\ MainLog = Order("manual")

\* C9: the decision is merge without a prompt exactly when there is no remote
\* data, no local data, no change, or the last sync was from this machine;
\* otherwise it prompts, and choice 0 gives manual, 1 merge, 2 pull, any other
\* choice Cancelled; it never gives push.
C9_Decision ==
    "decision" \in Range(log) =>
        LET quiet == \/ ~turnOnSt.hasRemoteData
                     \/ ~turnOnSt.hasLocalData
                     \/ ~hasChangesOf(turnOnSt.preview)
                     \/ isLastSyncFromCurrentMachineOf(turnOnSt.preview)
        IN /\ turnOnSt.prompted <=> ~quiet
           /\ ~turnOnSt.prompted => (turnOnSt.action = "merge" /\ turnOnSt.choice = -1)
           /\ (turnOnSt.prompted /\ turnOnSt.choice = 0) => turnOnSt.action = "manual"
           /\ (turnOnSt.prompted /\ turnOnSt.choice = 1) => turnOnSt.action = "merge"
           /\ (turnOnSt.prompted /\ turnOnSt.choice = 2) => turnOnSt.action = "pull"
           /\ (turnOnSt.prompted /\ turnOnSt.choice \notin {-1, 0, 1, 2}) =>
                 (turnOnSt.action = "none" /\ turnOnSt.err = "Cancelled")
           /\ turnOnSt.action # "push"

C9_Witness ==
    /\ turnOnSt.prompted
    /\ turnOnSt.choice = 3
    /\ turnOnSt.result = "Cancelled"

\* C10: when the decision is pull (remote data, local data, changes, last sync
\* from another machine, choice Replace Local) task.pull is invoked once,
\* task.merge and task.push are not, the sequence installs no manual sync
\* session and shows no manual-sync view, and autoSync.turnOn follows the pull.
C10_PullSequence ==
    (turnOnSt.prompted /\ turnOnSt.choice = 2) =>
        /\ turnOnSt.action = "pull"
        /\ tasks[turnOnSt.task].pull = 1
        /\ tasks[turnOnSt.task].merge = 0
        /\ tasks[turnOnSt.task].push = 0
        /\ manualSync.task # turnOnSt.task
        /\ "setManualSyncPreview" \notin Range(log)
        /\ "showView" \notin Range(log)
        /\ (last.op = "taskStepDone" /\ last.res = "ok") =>
              (turnOnSt.pc = "autoSyncTurnOn"
               /\ EndsWith(log, <<"pull", "syncStepDone", "dispose", "autoSyncTurnOn">>))
        /\ turnOnSt.result = "ok" => EndsWith(MainLog, <<"pull", "syncStepDone", "autoSyncTurnOn">>)

C10_Witness ==
    /\ turnOnSt.prompted
    /\ turnOnSt.choice = 2
    /\ turnOnSt.result = "ok"
    /\ tasks[turnOnSt.task].pull = 1

Locals(q) == [i \in DOMAIN q |-> q[i].local]

\* C11: a recomputation fires onDidChangeConflicts (onDidChangeChanges) exactly
\* when the local URIs of the newly derived conflicts (changes), in order,
\* differ from those of the previous list; a recomputation that derives the
\* same list fires nothing and leaves the list as it was.
C11_FireOnlyOnDifference ==
    [][last'.op \in {"updateConflicts", "updatePreview", "setManualSyncPreview"} =>
          /\ ("onDidChangeConflicts" \in last'.fired) <=> (Locals(conflicts') # Locals(conflicts))
          /\ ("onDidChangeChanges" \in last'.fired) <=> (Locals(changes') # Locals(changes))
          /\ ("onDidChangeConflicts" \notin last'.fired) => conflicts' = conflicts
          /\ ("onDidChangeChanges" \notin last'.fired) => changes' = changes]_vars

C11_Witness ==
    /\ last.op \in {"updateConflicts", "updatePreview"}
    /\ last.fired = {}
    /\ manualSync # NoSync
    /\ conflicts # <<>>
    /\ changes # <<>>

\* C12: over the starts and restarts on one key-value store the host session
\* id is adopted at most once, only by a start that finds no persisted
\* session id and the use-host-session flag set; once adopted the flag is
\* cleared in every later state.
C12_HostSessionOnce ==
    [][/\ adopted' <= 1
       /\ adopted' >= 1 => ~useWorkbenchSessionId'
       /\ adopted' # adopted =>
             /\ last'.op = "initialize"
             /\ stored = None
             /\ useWorkbenchSessionId
             /\ hostSessionId # None
             /\ stored' = hostSessionId
             /\ currentSessionId' = hostSessionId]_vars

C12_Witness ==
    /\ adopted = 1
    /\ starts = MaxStarts
    /\ stored = None
    /\ hostSessionId # None
    /\ phase = "listening"

C14_PickCases ==
    [][/\ Len(authenticationProviders) = 0 =>
             /\ pickSt'.pc = "idle" /\ refreshes' = EmptyBag
             /\ last'.op = "pickFalse" =>
                   /\ UNCHANGED <<stored, cached, all, accountStatus, live>>
                   /\ currentSessionId' = currentSessionId
       /\ (last'.op = "refreshDone" /\ last'.cont = "doPick") =>
             IF Len(authenticationProviders) = 1 /\ FlattenAll(all') = <<>>
             THEN /\ pickSt'.pc = "login"
                  /\ pickSt'.prov = authenticationProviders[1]
                  /\ pickSt'.items = {}
             ELSE pickSt'.pc = "chooser"
       /\ pickSt'.pc \in {"login", "chooser"} /\ pickSt.pc \notin {"login", "chooser"} =>
             (last'.op = "refreshDone" /\ last'.cont = "doPick")
       /\ (pickSt.pc = "login" /\ last'.op = "switch") =>
             /\ last'.target \in live' \ live
             /\ ProviderOf(last'.target) = pickSt.prov
             /\ currentSessionId' = last'.target
             /\ pickSt'.pc = "switch"]_vars

C14_Witness ==
    /\ Len(authenticationProviders) = 1
    /\ last.op = "switch"
    /\ pickSt.pc = "switch"
    /\ pickSt.prov = authenticationProviders[1]
    /\ pickSt.items = {}
    /\ currentSessionId = last.target

\* C15: provideDecorations(uri) decides on the first entry of changes whose
\* remote URI is uri, else on the first such entry of conflicts: "M" when its
\* localChange or remoteChange is Modified, else "A" when either is Added or
\* Deleted, else no decoration; no decoration when neither list has an entry.
C15_Decoration ==
    last.op = "provideDecorations" =>
        LET uri == last.cont
            inChanges == {i \in DOMAIN changes : changes[i].remote = uri}
            inConflicts == {i \in DOMAIN conflicts : conflicts[i].remote = uri}
            First(S) == CHOOSE i \in S : \A j \in S : i <= j
            kinds == IF inChanges # {}
                     THEN {changes[First(inChanges)].localChange,
                           changes[First(inChanges)].remoteChange}
                     ELSE IF inConflicts # {}
                     THEN {conflicts[First(inConflicts)].localChange,
                           conflicts[First(inConflicts)].remoteChange}
                     ELSE {}
        IN last.res = IF "Modified" \in kinds THEN "M"
                      ELSE IF kinds \cap {"Added", "Deleted"} # {} THEN "A"
                      ELSE "none"

\* a lookup that matches an added resource in changes and a modified one in
\* conflicts
C15_Witness ==
    /\ last.op = "provideDecorations"
    /\ last.res = "A"
    /\ \E i \in DOMAIN changes : changes[i].remote = last.cont
    /\ \E i \in DOMAIN conflicts :
          conflicts[i].remote = last.cont /\ conflicts[i].localChange = "Modified"

\* C16: right after switch(S) has assigned the current session id, the session
\* key in the store holds S, whatever another window wrote before and
\* whichever storage notifications are still undelivered.
C16_SwitchPersists ==
    [][last'.op = "switch" => stored' = last'.target]_vars

\* C17: at most one refresh is in flight, that is started and not yet applied
\* to the account set; a refresh triggered meanwhile does not start fetching.
C17_OneRefreshInFlight ==
    \A r, q \in BagToSet(refreshes) :
        (r.pc = "fetch" /\ q.pc = "fetch") => (r = q /\ CopiesIn(r, refreshes) = 1)

\* C18: handling a storage notification for the session key when the stored
\* value differs from the id this window holds drops the cache, so that the
\* current session id is the stored value, and starts one refresh; when the
\* stored value is the id this window holds (its own write) the handling
\* changes neither the current session id nor the store and starts no refresh.
C18_StorageNotification ==
    [][last'.op = "onDidChangeStorage" =>
          IF currentSessionId # stored
          THEN /\ cached' = Null
               /\ stored' = stored
               /\ currentSessionId' = stored
               /\ refreshes' = update("none", None)
               /\ BagCardinality(refreshes') = BagCardinality(refreshes) + 1
          ELSE /\ currentSessionId' = currentSessionId
               /\ UNCHANGED <<stored, refreshes, all, accountStatus>>]_vars

\* a notification for another window's write has been handled
C18_Witness ==
    /\ last.op = "onDidChangeStorage"
    /\ last.had
    /\ cached = Null
    /\ currentSessionId = stored
    /\ \E r \in BagToSet(refreshes) : r.pc = "fetch" /\ r.cont = "none"

C20_ChangesDerivation ==
    pendingOp = "none" =>
        LET conflictUris == {conflicts[i].local : i \in DOMAIN conflicts}
            derived == toUserDataSyncResourceGroups(
                MapSeq(SelectSeq(manualSync.preview, LAMBDA e : e[1] # "GlobalState"),
                       LAMBDA e :
                    <<e[1], SelectSeq(e[2].resourcePreviews, LAMBDA r :
                                /\ ~r.merged
                                /\ (r.localChange # "None" \/ r.remoteChange # "None")
                                /\ r.localResource \notin conflictUris)>>))
        IN /\ Locals(changes) = Locals(derived)
           /\ manualSync = NoSync => changes = <<>>
           /\ (last.op = "updatePreview" /\ last.cont \in {"pull", "push"}) => changes = <<>>

\* C21: a successive-auth-failure signal clears the stored session id and
\* starts a refresh; when that refresh completes current is undefined,
\* accountStatus is Unavailable and the sign-in notification is raised, once
\* and by nothing else; a token failure that is not successive only starts a
\* refresh.
C21_SuccessiveAuthFailures ==
    [][/\ last'.op = "authfail" =>
             /\ stored' = None
             /\ currentSessionId' = None
             /\ refreshes' = update("authfail", None)
             /\ "notify" \notin last'.fired
       /\ (last'.op = "refreshDone" /\ last'.cont = "authfail") =>
             /\ current' = None
             /\ accountStatus' = "Unavailable"
             /\ "notify" \in last'.fired
       /\ "notify" \in last'.fired => (last'.op = "refreshDone" /\ last'.cont = "authfail")
       /\ last'.op = "trigger" =>
             /\ UNCHANGED <<stored, cached>>
             /\ refreshes' = update("none", None)]_vars

C23_NoPushOnFailure ==
    [][last'.op = "applied" =>
          /\ \E r \in BagToSet(refreshes') : r.pc = "token" /\ r.cur = last'.cur
          /\ IF last'.cur # None /\ ~last'.had
             THEN /\ "logService.error" \in last'.fired
                  /\ "updateAccount" \notin last'.fired
             ELSE /\ "logService.error" \notin last'.fired
                  /\ last'.cur # None =>
                        /\ "updateAccount" \in last'.fired
                        /\ last'.value = <<TokenOf(last'.cur), ProviderOf(last'.cur)>>]_vars

\* C23: a refresh whose token read fails logs the failure, calls
\* updateAccount with undefined, as a refresh without current account does,
\* and goes on to set accountStatus from the current account; one whose token
\* read succeeds passes the current account's token and provider id.
C23_UndefinedOnFailure ==
    [][/\ last'.op = "applied" =>
             /\ \E r \in BagToSet(refreshes') : r.pc = "token" /\ r.cur = last'.cur
             /\ "updateAccount" \in last'.fired
             /\ IF last'.cur # None /\ ~last'.had
                THEN /\ "logService.error" \in last'.fired
                     /\ last'.value = <<>>
                ELSE /\ "logService.error" \notin last'.fired
                     /\ last'.value = IF last'.cur = None THEN <<>>
                                      ELSE <<TokenOf(last'.cur), ProviderOf(last'.cur)>>
       /\ last'.op = "refreshDone" =>
             accountStatus' = IF last'.cur # None THEN "Available" ELSE "Unavailable"]_vars

\* a refresh with a current account whose token read failed
C23_Witness ==
    /\ last.op = "applied"
    /\ last.cur # None
    /\ ~last.had
    /\ last.value = <<>>
    /\ "logService.error" \in last.fired

\* C24: syncManually invokes its final task.merge() only when changes and
\* conflicts are both empty.
C24_FinalMergeWhenResolved ==
    [][(Len(log') = Len(log) + 1 /\ log'[Len(log')] = "finalMerge") =>
          (changes' = <<>> /\ conflicts' = <<>>)]_vars

\* C25: once syncManually has installed the manual sync session and changes
\* and conflicts are both empty, it goes on to the final task.merge(): it is
\* never left waiting for a change event with nothing left to resolve.
C25_NoWaitWhenResolved ==
    ~(/\ turnOnSt.pc = "waitChanges"
      /\ manualSync.task = turnOnSt.task
      /\ changes = <<>>
      /\ conflicts = <<>>)

\* C26: after every preview replacement and conflict feed the entries of
\* changes carry the localChange and remoteChange of the stored preview's
\* entries, and the entries of conflicts those of the feed delivered last.
C26_CurrentChangeKinds ==
    LET Kinds(q) == [i \in DOMAIN q |-> <<q[i].local, q[i].localChange, q[i].remoteChange>>]
    IN /\ Kinds(changes) = Kinds(NewChanges(manualSync, conflicts))
       /\ last.op = "updateConflicts" =>
             Kinds(conflicts) = Kinds(toUserDataSyncResourceGroups(last.preview))
====
